---- MODULE Spec2Model ----
(***************************************************************************)
(* Incremental ("delta") extraction utilities of SILVER_TRANFORMATIONS:    *)
(* the configuration table of per-table watermarks, one source table, the  *)
(* five query functions of utils.py, and pipeline runs that call them in   *)
(* the order reader -> delta -> latest -> writer.                          *)
(*                                                                         *)
(* Strings are sequences of character codes, compared as the warehouse     *)
(* compares VARCHAR values (code point by code point).  The text of the    *)
(* UPDATE statement is built by interpolation and read back by the         *)
(* engine's string-literal lexer, as the code does.                        *)
(***************************************************************************)
EXTENDS Integers, Sequences, FiniteSets, TLC

VARIABLES
    config,     \* CONFIG_TABLE: sequence of [table_name, silver_last_update]
    src,        \* rows of the source table SrcName, in insertion order
    run,        \* per pipeline run: position in the cycle and its locals
    counted,    \* history: indices of src rows counted by some find_delta
    fresh,      \* history: indices of src rows inserted above the stored watermark
    lastWrite,  \* history: latest_timestamp of the last update_config that returned
    call        \* the last direct call of one function: arguments and outcome

vars == <<config, src, run, counted, fresh, lastWrite, call>>

----------------------------------------------------------------------------
(* Bounds *)

MaxRows == 2        \* rows the source table may hold
MaxTs == 2          \* distinct well-formed timestamps "1" .. "MaxTs"

----------------------------------------------------------------------------
(* Characters and strings *)

\* first character (line feed) of the statement text that the f-string puts
\* between the two literals: "\n            WHERE table_name = "
WHERE_CLAUSE == 10
\* the single quote that delimits both literals of the statement
QUOTE == 39
\* Python None / SQL NULL: no string
NULL == << -1 >>

\* timestamp i is the one-character string chr(48 + i): "0", "1", "2", ...
Ts(i) == << 48 + i >>

\* the timestamps a source row may carry
TIMESTAMPS == { Ts(i) : i \in 1..MaxTs }

\* u < w as VARCHAR values
StrLess(u, w) ==
    \E k \in 1..(Len(u) + 1) :
        /\ \A i \in 1..(k - 1) : i <= Len(w) /\ u[i] = w[i]
        /\ k <= Len(w)
        /\ (k > Len(u) \/ u[k] < w[k])

\* mutant: the filter is >= instead of >
SqlGe(x, w) == x # NULL /\ w # NULL /\ ~StrLess(x, w)

\* the SQL predicate x > w: never true when an operand is NULL
SqlGt(x, w) == x # NULL /\ w # NULL /\ StrLess(w, x)

\* MAX() over a set of values: NULLs are ignored, NULL when nothing is left
SqlMax(S) ==
    LET nn == { x \in S : x # NULL }
    IN  IF nn = {} THEN NULL
        ELSE CHOOSE m \in nn : \A x \in nn : ~StrLess(m, x)

----------------------------------------------------------------------------
(* Outcomes of a function call *)

Return(v, q) == [kind |-> "return", value |-> v, queries |-> q]
Raise(k, q) == [kind |-> k, value |-> NULL, queries |-> q]

\* mutant: no except clause, the collaborator's exception passes through
ExceptNothing(outcome, kind) == outcome

\* except Exception as e: raise <kind>(...) from e
ExceptAs(outcome, kind) ==
    IF outcome.kind = "return" THEN outcome ELSE Raise(kind, outcome.queries)

----------------------------------------------------------------------------
(* Tables and lazy views *)

\* the one source table that exists in the warehouse; any other name is unknown
SrcName == << 65 >>      \* "A"
OtherName == << 66 >>    \* "B"

\* a non-null value of the second column of the source table
PAYLOAD == << 120 >>

Columns == { "current_timestamp", "payload" }

ROWS == [ current_timestamp : TIMESTAMPS \cup {NULL}, payload : {PAYLOAD, NULL} ]

\* a Snowpark DataFrame is a query plan, evaluated each time an action
\* (count, collect) runs: the table name, the filters applied, dropna or not
Table(name) == [table |-> name, filter |-> << >>, dropna |-> FALSE]

NoDf == Table(<< >>)

TableExists(name) == name = SrcName

\* mutant: dropna(how="any")
DropsRowAny(row) == \E c \in Columns : row[c] = NULL

\* dropna(how="all") keeps a row unless every column is NULL
DropsRow(row) == \A c \in Columns : row[c] = NULL

\* whether a row of the table belongs to the view
InView(df, row) ==
    /\ \A k \in 1..Len(df.filter) : SqlGt(row.current_timestamp, df.filter[k])
    /\ df.dropna => ~DropsRow(row)

\* indices of the rows of tbl the view selects, evaluated now
ViewRows(df, tbl) == { i \in 1..Len(tbl) : InView(df, tbl[i]) }

\* df.count()
Count(df, tbl) == Cardinality(ViewRows(df, tbl))

----------------------------------------------------------------------------
(* The UPDATE statement: interpolation, and the engine's reading of it *)

\* the f-string of update_config, from the opening quote of the first literal
\* to the closing quote of the second
UpdateText(table_name, latest_timestamp) ==
    << QUOTE >> \o latest_timestamp \o << QUOTE, WHERE_CLAUSE, QUOTE >>
        \o table_name \o << QUOTE >>

\* the engine's string-literal lexer, from position j just after the opening
\* quote: two quotes in a row are one quote of the value, one quote ends it
RECURSIVE ScanLiteral(_, _, _)
ScanLiteral(text, j, acc) ==
    IF j > Len(text)
    THEN [ok |-> FALSE, value |-> acc, next |-> j]
    ELSE IF text[j] = QUOTE
         THEN IF j + 1 <= Len(text) /\ text[j + 1] = QUOTE
              THEN ScanLiteral(text, j + 2, Append(acc, QUOTE))
              ELSE [ok |-> TRUE, value |-> acc, next |-> j + 1]
         ELSE ScanLiteral(text, j + 1, Append(acc, text[j]))

SyntaxError == [ok |-> FALSE, where |-> FALSE, value |-> << >>, name |-> << >>]

\* UPDATE t SET silver_last_update = <literal> [WHERE table_name = <literal>]
ParseUpdate(text) ==
    LET v == ScanLiteral(text, 2, << >>)
    IN  IF ~v.ok THEN SyntaxError
        ELSE IF v.next > Len(text)
             THEN [ok |-> TRUE, where |-> FALSE, value |-> v.value, name |-> << >>]
        ELSE IF /\ text[v.next] = WHERE_CLAUSE
                /\ v.next + 1 <= Len(text)
                /\ text[v.next + 1] = QUOTE
             THEN LET n == ScanLiteral(text, v.next + 2, << >>)
                  IN  IF n.ok /\ n.next = Len(text) + 1
                      THEN [ok |-> TRUE, where |-> TRUE,
                            value |-> v.value, name |-> n.value]
                      ELSE SyntaxError
        ELSE SyntaxError

\* mutant: the statement is run as an INSERT of the record
ExecInsert(cfg, stmt) ==
    Append(cfg, [table_name |-> stmt.name, silver_last_update |-> stmt.value])

\* the rows an UPDATE statement leaves in the configuration table
ExecUpdate(cfg, stmt) ==
    [ i \in 1..Len(cfg) |->
        IF ~stmt.where \/ cfg[i].table_name = stmt.name
        THEN [cfg[i] EXCEPT !.silver_last_update = stmt.value]
        ELSE cfg[i] ]

----------------------------------------------------------------------------
(* The functions of utils.py.  failAt = k: the k-th query the function     *)
(* sends fails in the collaborator (connection, permission); 0: none does. *)

\* mutant: the filter on table_name is missing, the first record is returned
find_last_update_date_unfiltered(cfg, table_name, failAt) ==
    LET body == IF failAt = 1 THEN Raise("Exception", 1)
                ELSE IF cfg = << >> THEN Raise("ConfigError", 1)
                ELSE Return(cfg[1].silver_last_update, 1)
    IN  ExceptAs(body, "ConfigError")

find_last_update_date(cfg, table_name, failAt) ==
    LET Matching(r) == r.table_name = table_name
        result == SelectSeq(cfg, Matching)
        body == IF failAt = 1 THEN Raise("Exception", 1)
                ELSE IF result = << >> THEN Raise("ConfigError", 1)
                ELSE Return(result[1].silver_last_update, 1)
    IN  ExceptAs(body, "ConfigError")

find_delta(tbl, table_name, last_update, failAt) ==
    LET df == [Table(table_name) EXCEPT !.filter = << last_update >>]
        body == IF failAt = 1 \/ ~TableExists(table_name)
                THEN Raise("Exception", 1)
                ELSE Return(<< df, Count(df, tbl) >>, 1)
    IN  ExceptAs(body, "DataError")

\* mutant: the aggregate is "min" instead of "max"
find_latest_timestamp_min(tbl, df, failAt) ==
    LET vals == { tbl[i].current_timestamp : i \in ViewRows(df, tbl) } \ {NULL}
        body == IF failAt = 1 \/ ~TableExists(df.table)
                THEN Raise("Exception", 1)
                ELSE Return(IF vals = {} THEN NULL
                            ELSE CHOOSE m \in vals : \A x \in vals : ~StrLess(x, m), 1)
    IN  ExceptAs(body, "DataError")

find_latest_timestamp(tbl, df, failAt) ==
    LET body == IF failAt = 1 \/ ~TableExists(df.table)
                THEN Raise("Exception", 1)
                ELSE Return(SqlMax({ tbl[i].current_timestamp :
                                        i \in ViewRows(df, tbl) }), 1)
    IN  ExceptAs(body, "DataError")

\* mutant: the statement also carries AND silver_last_update < <literal>, so
\* that a watermark never moves back
update_config_if_newer(cfg, table_name, latest_timestamp, failAt) ==
    LET stmt == ParseUpdate(UpdateText(table_name, latest_timestamp))
        body == IF failAt = 1 \/ ~stmt.ok THEN Raise("Exception", 1)
                ELSE Return(NULL, 1)
    IN  [ outcome |-> ExceptAs(body, "ConfigError"),
          config |-> IF body.kind = "return"
                     THEN [ i \in 1..Len(cfg) |->
                            IF SqlGt(stmt.value, cfg[i].silver_last_update)
                            THEN ExecUpdate(cfg, stmt)[i] ELSE cfg[i] ]
                     ELSE cfg ]

\* the outcome, and the configuration table afterwards
update_config(cfg, table_name, latest_timestamp, failAt) ==
    LET stmt == ParseUpdate(UpdateText(table_name, latest_timestamp))
        body == IF failAt = 1 \/ ~stmt.ok THEN Raise("Exception", 1)
                ELSE Return(NULL, 1)
    IN  [ outcome |-> ExceptAs(body, "ConfigError"),
          config |-> IF body.kind = "return" THEN ExecUpdate(cfg, stmt) ELSE cfg ]

remove_null_rows(tbl, delta_df, failAt) ==
    LET cleaned_df == [delta_df EXCEPT !.dropna = TRUE]
        body == IF failAt = 1 \/ ~TableExists(delta_df.table)
                THEN Raise("Exception", 1)
                ELSE IF failAt = 2 THEN Raise("Exception", 2)
                ELSE Return(<< cleaned_df,
                               Count(delta_df, tbl) - Count(cleaned_df, tbl) >>, 2)
    IN  ExceptAs(body, "DataError")

----------------------------------------------------------------------------
(* State of the pipeline *)

Runs == { "r1", "r2" }

\* the tables a pipeline run may be started for
RUN_TABLES == { SrcName, OtherName }

Record(name, w) == [table_name |-> name, silver_last_update |-> w]

\* the watermark the configuration table holds for a table (NULL: no record)
StoredWatermark(cfg, name) ==
    LET Matching(r) == r.table_name = name
        m == SelectSeq(cfg, Matching)
    IN  IF m = << >> THEN NULL ELSE m[1].silver_last_update

Idle ==
    [ pc |-> "idle", table_name |-> << >>, last_update |-> NULL, df |-> NoDf,
      delta_count |-> 0, latest |-> NULL, error |-> "none", at |-> "none",
      fault |-> 0, clean |-> TRUE ]

NoCall ==
    [ op |-> "none", table_name |-> << >>, value |-> NULL, df |-> NoDf,
      failAt |-> 0, before |-> << >>, outcome |-> Return(NULL, 0) ]

Init ==
    /\ config = << Record(SrcName, Ts(0)), Record(OtherName, Ts(0)) >>
    /\ src = << >>
    /\ run = [ r \in Runs |-> Idle ]
    /\ counted = {}
    /\ fresh = {}
    /\ lastWrite = NULL
    /\ call = NoCall

\* something changed under the runs that are inside a cycle
Disturbed(except) ==
    [ r \in Runs |->
        IF r # except /\ run[r].pc # "idle"
        THEN [run[r] EXCEPT !.clean = FALSE] ELSE run[r] ]

Failed(r, outcome, failAt) ==
    [run[r] EXCEPT !.pc = "failed", !.error = outcome.kind, !.at = run[r].pc,
                   !.fault = failAt]

----------------------------------------------------------------------------
(* Actions of the pipeline *)

\* another process appends a row to the source table
Insert(row) ==
    /\ Len(src) < MaxRows
    /\ src' = Append(src, row)
    /\ fresh' = IF SqlGt(row.current_timestamp, StoredWatermark(config, SrcName))
                THEN fresh \cup { Len(src) + 1 } ELSE fresh
    /\ run' = Disturbed("none")
    /\ UNCHANGED << config, counted, lastWrite, call >>

\* the orchestrator starts a cycle for a table
Begin(r, t) ==
    /\ run[r].pc = "idle"
    /\ run' = [run EXCEPT ![r] = [Idle EXCEPT !.pc = "read", !.table_name = t]]
    /\ UNCHANGED << config, src, counted, fresh, lastWrite, call >>

ReadStep(r, failAt) ==
    /\ run[r].pc = "read"
    /\ LET o == find_last_update_date(config, run[r].table_name, failAt)
       IN  run' = [run EXCEPT ![r] =
                     IF o.kind = "return"
                     THEN [run[r] EXCEPT !.pc = "delta", !.last_update = o.value]
                     ELSE Failed(r, o, failAt)]
    /\ UNCHANGED << config, src, counted, fresh, lastWrite, call >>

\* the caller goes on to the extractor only with a non-empty delta
DeltaStep(r, failAt) ==
    /\ run[r].pc = "delta"
    /\ LET o == find_delta(src, run[r].table_name, run[r].last_update, failAt)
       IN  IF o.kind = "return"
           THEN /\ run' = [run EXCEPT ![r] =
                            [run[r] EXCEPT
                               !.pc = IF o.value[2] > 0 THEN "latest" ELSE "empty",
                               !.df = o.value[1], !.delta_count = o.value[2]]]
                /\ counted' = counted \cup ViewRows(o.value[1], src)
           ELSE /\ run' = [run EXCEPT ![r] = Failed(r, o, failAt)]
                /\ counted' = counted
    /\ UNCHANGED << config, src, fresh, lastWrite, call >>

LatestStep(r, failAt) ==
    /\ run[r].pc = "latest"
    /\ LET o == find_latest_timestamp(src, run[r].df, failAt)
       IN  run' = [run EXCEPT ![r] =
                     IF o.kind = "return"
                     THEN [run[r] EXCEPT !.pc = "write", !.latest = o.value]
                     ELSE Failed(r, o, failAt)]
    /\ UNCHANGED << config, src, counted, fresh, lastWrite, call >>

WriteStep(r, failAt) ==
    /\ run[r].pc = "write"
    /\ LET u == update_config(config, run[r].table_name, run[r].latest, failAt)
       IN  /\ config' = u.config
           /\ run' = [Disturbed(r) EXCEPT ![r] =
                        IF u.outcome.kind = "return"
                        THEN [run[r] EXCEPT !.pc = "done"]
                        ELSE Failed(r, u.outcome, failAt)]
           /\ lastWrite' = IF u.outcome.kind = "return"
                           THEN run[r].latest ELSE lastWrite
    /\ UNCHANGED << src, counted, fresh, call >>

\* the cycle is over; the run's locals are dropped
Finish(r) ==
    /\ run[r].pc \in { "done", "empty", "failed" }
    /\ run' = [run EXCEPT ![r] = Idle]
    /\ UNCHANGED << config, src, counted, fresh, lastWrite, call >>

Next ==
    \/ \E row \in [ current_timestamp : TIMESTAMPS \cup {NULL},
                    payload : {PAYLOAD} ] : Insert(row)
    \/ \E r \in Runs, t \in RUN_TABLES : Begin(r, t)
    \/ \E r \in Runs, failAt \in 0..1 : ReadStep(r, failAt)
    \/ \E r \in Runs, failAt \in 0..1 : DeltaStep(r, failAt)
    \/ \E r \in Runs, failAt \in 0..1 : LatestStep(r, failAt)
    \/ \E r \in Runs, failAt \in 0..1 : WriteStep(r, failAt)
    \/ \E r \in Runs : Finish(r)

Spec == Init /\ [][Next]_vars

----------------------------------------------------------------------------
(* One direct call of one function, from any configuration table and any   *)
(* source table                                                            *)

QuotedName == << 65, QUOTE >>            \* "A'"

\* table names a configuration record may carry
CFG_NAMES == { SrcName, OtherName, QuotedName }

\* table names a caller may pass
CALL_NAMES == CFG_NAMES \cup { << QUOTE >>, << 65, QUOTE, QUOTE >> }

\* strings a caller may pass as a watermark or as the latest timestamp
CALL_VALUES == TIMESTAMPS \cup { Ts(0), << QUOTE, QUOTE >>, Ts(1) \o << QUOTE >> }

\* views a caller may pass
CALL_VIEWS ==
    { [table |-> n, filter |-> f, dropna |-> d] :
        n \in { SrcName, OtherName },
        f \in { << >> } \cup { << w >> : w \in TIMESTAMPS \cup { Ts(0) } },
        d \in BOOLEAN }

SeqsUpTo(S, n) == UNION { [1..k -> S] : k \in 0..n }

\* the watermark a record starts with: a different one for each name
FirstWatermark(n) ==
    IF n = SrcName THEN Ts(0) ELSE IF n = OtherName THEN Ts(1) ELSE Ts(2)

\* configuration tables: at most one record per table name
CONFIGS ==
    { c \in SeqsUpTo({ Record(n, FirstWatermark(n)) : n \in CFG_NAMES },
                     Cardinality(CFG_NAMES)) :
        \A i, j \in 1..Len(c) : i < j
            => StrLess(c[i].table_name, c[j].table_name) }

InitOps ==
    /\ config \in CONFIGS
    /\ src \in SeqsUpTo(ROWS, MaxRows)
    /\ run = [ r \in Runs |-> Idle ]
    /\ counted = {}
    /\ fresh = {}
    /\ lastWrite = NULL
    /\ call = [ NoCall EXCEPT !.before = config ]

Called(op, table_name, value, df, failAt, outcome) ==
    [ op |-> op, table_name |-> table_name, value |-> value, df |-> df,
      failAt |-> failAt, before |-> config, outcome |-> outcome ]

CallReader(table_name, failAt) ==
    /\ call.op = "none"
    /\ call' = Called("find_last_update_date", table_name, NULL, NoDf, failAt,
                      find_last_update_date(config, table_name, failAt))
    /\ UNCHANGED << config, src, run, counted, fresh, lastWrite >>

CallDelta(table_name, last_update, failAt) ==
    /\ call.op = "none"
    /\ call' = Called("find_delta", table_name, last_update, NoDf, failAt,
                      find_delta(src, table_name, last_update, failAt))
    /\ UNCHANGED << config, src, run, counted, fresh, lastWrite >>

CallLatest(df, failAt) ==
    /\ call.op = "none"
    /\ call' = Called("find_latest_timestamp", << >>, NULL, df, failAt,
                      find_latest_timestamp(src, df, failAt))
    /\ UNCHANGED << config, src, run, counted, fresh, lastWrite >>

CallWriter(table_name, latest_timestamp, failAt) ==
    /\ call.op = "none"
    /\ LET u == update_config(config, table_name, latest_timestamp, failAt)
       IN  /\ config' = u.config
           /\ call' = Called("update_config", table_name, latest_timestamp,
                             NoDf, failAt, u.outcome)
    /\ UNCHANGED << src, run, counted, fresh, lastWrite >>

\* src does not change between the two counts here: no other action of
\* this specification is enabled once a call was made
CallFilter(delta_df, failAt) ==
    /\ call.op = "none"
    /\ call' = Called("remove_null_rows", << >>, NULL, delta_df, failAt,
                      remove_null_rows(src, delta_df, failAt))
    /\ UNCHANGED << config, src, run, counted, fresh, lastWrite >>

NextOps ==
    \/ \E n \in CALL_NAMES, failAt \in 0..1 : CallReader(n, failAt)
    \/ \E n \in { SrcName, OtherName }, w \in CALL_VALUES, failAt \in 0..1 :
          CallDelta(n, w, failAt)
    \/ \E df \in CALL_VIEWS, failAt \in 0..1 : CallLatest(df, failAt)
    \/ \E n \in CALL_NAMES, v \in CALL_VALUES, failAt \in 0..1 :
          CallWriter(n, v, failAt)
    \/ \E df \in CALL_VIEWS, failAt \in 0..2 : CallFilter(df, failAt)

SpecOps == InitOps /\ [][NextOps]_vars

----------------------------------------------------------------------------
(* Properties of pipeline runs (specification Spec) *)

\* the rows of the source table whose timestamp is strictly above w
Newer(w) ==
    { i \in 1..Len(src) :
        src[i].current_timestamp # NULL /\ StrLess(w, src[i].current_timestamp) }

\* C1: a cycle reader -> delta -> latest -> writer that nothing interrupted,
\* run for a table with at least one row strictly above the stored watermark
\* W, ends with the table's configuration record holding exactly the greatest
\* current_timestamp among the rows strictly above W, and the count it took
\* is the number of those rows.
C1_CycleStoresMax ==
    \A r \in Runs :
        run[r].pc = "done" /\ run[r].clean =>
            LET newer == Newer(run[r].last_update)
                w == StoredWatermark(config, run[r].table_name)
            IN  /\ newer # {}
                /\ run[r].delta_count = Cardinality(newer)
                /\ \E i \in newer : src[i].current_timestamp = w
                /\ \A i \in newer : ~StrLess(w, src[i].current_timestamp)

\* C1 witness: an uninterrupted cycle that started from watermark "1" over a
\* table holding a row at "1" (excluded) and a row at "2", and stored "2".
C1_Witness ==
    \E r \in Runs :
        /\ run[r].pc = "done" /\ run[r].clean
        /\ run[r].last_update = Ts(1)
        /\ \E i \in 1..Len(src) : src[i].current_timestamp = Ts(1)
        /\ run[r].delta_count = 1
        /\ StoredWatermark(config, SrcName) = Ts(2)

\* C2: in every reachable state, every row that was inserted with a timestamp
\* strictly above the watermark stored at that moment either was counted by
\* some cycle's find_delta or is still strictly above the stored watermark.
C2_NoRowSkipped ==
    \A i \in fresh :
        \/ i \in counted
        \/ SqlGt(src[i].current_timestamp, StoredWatermark(config, SrcName))

\* C9: writers are not serialised or version-checked: the configuration
\* record holds the value of the update_config call that returned last,
\* whatever it held before, and an update_config call of a run fails only
\* when the collaborator fails, never because of another run's update.
C9_LastWriterWins ==
    /\ lastWrite # NULL => StoredWatermark(config, SrcName) = lastWrite
    /\ \A r \in Runs :
          run[r].pc = "failed" /\ run[r].at = "write" => run[r].fault = 1

\* C9 witness: both runs wrote; the record holds the value of r1, which is
\* older than the value r2 had stored before.
C9_Witness ==
    /\ run["r1"].pc = "done" /\ run["r2"].pc = "done"
    /\ StrLess(run["r1"].latest, run["r2"].latest)
    /\ StoredWatermark(config, SrcName) = run["r1"].latest
    /\ lastWrite = run["r1"].latest

----------------------------------------------------------------------------
(* Properties of one call (specification SpecOps) *)

\* the records of a configuration table that carry a table name
Matching(cfg, name) == { i \in 1..Len(cfg) : cfg[i].table_name = name }

\* C3: the count find_delta returns is the number of rows of the table whose
\* current_timestamp is strictly above the watermark passed, the view it
\* returns holds exactly those rows, and no row at the watermark is in it.
C3_DeltaCount ==
    call.op = "find_delta" /\ call.outcome.kind = "return" =>
        LET df == call.outcome.value[1]
        IN  /\ call.outcome.value[2] = Cardinality(Newer(call.value))
            /\ ViewRows(df, src) = Newer(call.value)
            /\ \A i \in ViewRows(df, src) : src[i].current_timestamp # call.value

\* C3 witness: find_delta returned count 1 over a table that also holds a
\* row exactly at the watermark.
C3_Witness ==
    /\ call.op = "find_delta" /\ call.outcome.kind = "return"
    /\ call.outcome.value[2] = 1
    /\ \E i \in 1..Len(src) : src[i].current_timestamp = call.value

\* C4: find_last_update_date returns the silver_last_update of the record
\* when exactly one record carries the table name, raises ConfigError when
\* none does, and leaves the configuration table as it was.
C4_Reader ==
    call.op = "find_last_update_date" =>
        LET m == Matching(config, call.table_name)
        IN  /\ config = call.before
            /\ m = {} => call.outcome.kind = "ConfigError"
            /\ Cardinality(m) = 1 /\ call.failAt = 0 =>
                  /\ call.outcome.kind = "return"
                  /\ \A i \in m : call.outcome.value = config[i].silver_last_update

\* C4 witness: the reader returned the watermark of a record that is not the
\* first one of the configuration table.
C4_Witness ==
    /\ call.op = "find_last_update_date" /\ call.outcome.kind = "return"
    /\ Len(config) > 1
    /\ call.table_name = config[Len(config)].table_name
    /\ call.outcome.value = config[Len(config)].silver_last_update

\* C5: update_config is idempotent: after a call that returned, a second
\* call with the same table name and value returns and leaves the
\* configuration table exactly as the first call left it.
C5_WriterIdempotent ==
    call.op = "update_config" /\ call.outcome.kind = "return" =>
        LET again == update_config(config, call.table_name, call.value, 0)
        IN  /\ again.outcome.kind = "return"
            /\ again.config = config

\* C5 witness: an update_config call that returned and changed a record.
C5_Witness ==
    /\ call.op = "update_config" /\ call.outcome.kind = "return"
    /\ config # call.before
    /\ Matching(call.before, call.table_name) # {}

\* C6: remove_null_rows returns exactly the rows of its input that have at
\* least one non-NULL column, and the count it returns is the number of
\* input rows minus the number of rows returned.
C6_NullRowFilter ==
    call.op = "remove_null_rows" /\ call.outcome.kind = "return" =>
        LET input == ViewRows(call.df, src)
            output == ViewRows(call.outcome.value[1], src)
        IN  /\ output = { i \in input : \E c \in Columns : src[i][c] # NULL }
            /\ call.outcome.value[2] = Cardinality(input) - Cardinality(output)

\* C6 witness: one row with only NULLs was removed and a row with a NULL
\* timestamp and a payload was kept.
C6_Witness ==
    /\ call.op = "remove_null_rows" /\ call.outcome.kind = "return"
    /\ call.outcome.value[2] = 1
    /\ \E i \in ViewRows(call.outcome.value[1], src) :
          src[i].current_timestamp = NULL

\* C7: find_latest_timestamp called on an empty result set raises DataError,
\* and it never returns NULL as the maximum.
C7_EmptyIsError ==
    call.op = "find_latest_timestamp" =>
        /\ ViewRows(call.df, src) = {} => call.outcome.kind = "DataError"
        /\ call.outcome.kind = "return" => call.outcome.value # NULL

\* the error kind the documentation gives each function
ErrorKind(op) ==
    IF op \in { "find_last_update_date", "update_config" }
    THEN "ConfigError" ELSE "DataError"

\* C8: a call either returns or raises the error kind of its function, never
\* the collaborator's own exception; a failure of the k-th query raises that
\* kind with no query sent after the failed one (no retry), and a call that
\* returns sent each of its queries once.
C8_ErrorKinds ==
    call.op # "none" =>
        LET o == call.outcome
            n == IF call.op = "remove_null_rows" THEN 2 ELSE 1
        IN  /\ o.kind \in { "return", ErrorKind(call.op) }
            /\ call.failAt \in 1..n /\ (call.failAt = 2 => TableExists(call.df.table))
                  => o.kind = ErrorKind(call.op) /\ o.queries = call.failAt
            /\ o.kind = "return" => o.queries = n

\* C8 witness: the second count of remove_null_rows failed and the call
\* raised DataError after two queries.
C8_Witness ==
    /\ call.op = "remove_null_rows" /\ call.failAt = 2
    /\ call.outcome.kind = "DataError" /\ call.outcome.queries = 2

\* C10: update_config changes only silver_last_update of the record that
\* carries the table name passed: no record is created or deleted, every
\* other record is unchanged, and when no record carries the name a call
\* whose statement the collaborator executes returns without error and the
\* configuration table is unchanged.
C10_WriterFrame ==
    call.op = "update_config" =>
        /\ Len(config) = Len(call.before)
        /\ \A i \in 1..Len(call.before) :
              /\ i <= Len(config)
              /\ config[i].table_name = call.before[i].table_name
              /\ call.before[i].table_name # call.table_name
                    => config[i] = call.before[i]
        /\ Matching(call.before, call.table_name) = {} =>
              /\ config = call.before
              /\ call.failAt = 0
                    /\ ParseUpdate(UpdateText(call.table_name, call.value)).ok
                    => call.outcome.kind = "return"

====
